---- MODULE Spec2Model ----
(***************************************************************************)
(* Model of transport.go of go-libp2p-quic-transport: the connManager      *)
(* socket pool (one UDP socket per address family behind one mutex) and    *)
(* transport.Dial (socket acquisition, per-dial clone of the TLS           *)
(* configuration with a peer-ID verification callback, quic.DialContext    *)
(* and construction of the conn value).                                    *)
(*                                                                         *)
(* Every goroutine that calls into the transport is a task.  A task calls  *)
(* either Dial or, directly, connManager.GetConnForAddr, runs the call one *)
(* step at a time and may call again once the call returned.               *)
(***************************************************************************)
EXTENDS Integers, Sequences, FiniteSets, TLC

(* ----------------------------- bounds ---------------------------------- *)

NumKeys == 2        \* distinct public keys a remote can present
MaxSockets == 3     \* sockets the operating system hands out at most

\* the two goroutines that call into the one transport
Tasks == {1, 2}
PubKeys == 1..NumKeys

(* ------------------------- values of the program ----------------------- *)

\* ic.PubKey(nil): the zero value of `var remotePubKey ic.PubKey`
NoKey == 0

\* peer.IDFromPublicKey: the peer ID is a one-way derivation of the key
IDFromPublicKey(k) == (k * 5) % 11

PeerIDs == {IDFromPublicKey(k) : k \in PubKeys}

\* peer.ID.MatchesPublicKey, as used on line 135
MatchesPublicKey(id, k) == IDFromPublicKey(k) = id

\* A net.PacketConn is a Go interface value: a dynamic type and a pointer.
\* The interface compares equal to nil only when it has no dynamic type.
NilPacketConn == [typed |-> FALSE, ptr |-> 0]

\* (*net.UDPConn)(nil) stored in a net.PacketConn: what `return
\* net.ListenUDP(...)` yields in createConn when ListenUDP fails
NilUDPConn == [typed |-> TRUE, ptr |-> 0]

\* the *net.UDPConn of the n-th socket the operating system opened
UDPConn(n) == [typed |-> TRUE, ptr |-> n]

PacketConns == {NilPacketConn, NilUDPConn} \cup {UDPConn(n) : n \in 1..MaxSockets}

\* `conn != nil` on a net.PacketConn
NotNil(c) == c.typed

\* the handle is a socket one can send on
Usable(c) == c.ptr # 0

NoErr == "nil"

\* the networks GetConnForAddr is called with
Networks == {"udp4", "udp6", "udp5"}

\* multiaddresses a caller dials: IP version, transport protocol, and
\* whether the /quic component is present ("unix" has no IP component)
RAddrs ==
  { [ip |-> "ip4", l4 |-> "udp", quic |-> TRUE],
    [ip |-> "ip6", l4 |-> "udp", quic |-> TRUE],
    [ip |-> "ip4", l4 |-> "udp", quic |-> FALSE],
    [ip |-> "ip4", l4 |-> "tcp", quic |-> FALSE],
    [ip |-> "unix", l4 |-> "none", quic |-> FALSE] }

NoAddr == [ip |-> "none", l4 |-> "none", quic |-> FALSE]

\* manet.DialArgs(raddr), line 104: the network of an IP multiaddress
DialArgs(a) ==
  IF a.ip \notin {"ip4", "ip6"} \/ a.l4 \notin {"udp", "tcp"}
  THEN [network |-> "", err |-> "not a thin waist address"]
  ELSE [network |->
          IF a.l4 = "udp"
          THEN (IF a.ip = "ip4" THEN "udp4" ELSE "udp6")
          ELSE (IF a.ip = "ip4" THEN "tcp4" ELSE "tcp6"),
        err |-> NoErr]

\* raw certificates a remote can send: bytes that do not parse, a
\* certificate without a usable libp2p key, a certificate carrying key k
RawCerts ==
  {[parses |-> FALSE, key |-> NoKey], [parses |-> TRUE, key |-> NoKey]}
    \cup {[parses |-> TRUE, key |-> k] : k \in PubKeys}

\* chains a remote can present: none, one raw certificate, or a
\* certificate with a key followed by the certificate of an issuer
Chains ==
  {<<>>}
    \cup {<<c>> : c \in RawCerts}
    \cup {<<c, [parses |-> TRUE, key |-> NoKey]>> : c \in {r \in RawCerts : r.key # NoKey}}

\* x509.ParseCertificate over every raw certificate, lines 122-129
ParseError(rawCerts) == \E i \in 1..Len(rawCerts) : ~rawCerts[i].parses

\* getRemotePubKey(chain), line 131
getRemotePubKey(chain) ==
  IF Len(chain) # 1 THEN [key |-> NoKey, err |-> "expected one certificate"]
  ELSE IF chain[1].key = NoKey THEN [key |-> NoKey, err |-> "no libp2p key"]
  ELSE [key |-> chain[1].key, err |-> NoErr]

(* ------------------------------- state --------------------------------- *)

VARIABLES
  connIPv4,      \* connManager.connIPv4
  connIPv6,      \* connManager.connIPv6
  mutex,         \* connManager.mutex: the task holding it, or 0
  sockets,       \* sockets opened by net.ListenUDP, in order of creation
  tlsConf,       \* transport.tlsConf, the configuration shared by all calls
  op,            \* the call a task is in
  pc,            \* the task's position in the call
  raddr,         \* Dial's raddr
  p,             \* Dial's p, the expected peer ID
  ctx,           \* Dial's ctx: "live", or cancelled before or after the session was established
  network,       \* GetConnForAddr's network
  pconn,         \* what GetConnForAddr returned: [conn, err]
  dialConf,      \* Dial's local tlsConf: which configuration it points to, and the clone
  remotePubKey,  \* Dial's local remotePubKey
  hs,            \* state of the handshake inside quic.DialContext
  rawCerts,      \* the certificate chain the remote presented in the handshake
  sess,          \* Dial's sess
  ret,           \* what the call returned: [conn, err]
  answer,        \* what CanDial, Protocols, Proxy or Listen returned
  privKey,       \* transport.privKey
  localPeer      \* transport.localPeer

poolVars == <<connIPv4, connIPv6, mutex, sockets>>
argVars == <<op, raddr, p, network>>
dialVars == <<dialConf, remotePubKey, hs, rawCerts, sess>>
queryVars == <<answer, privKey, localPeer>>
vars == <<connIPv4, connIPv6, mutex, sockets, tlsConf, op, pc, raddr, p, ctx,
          network, pconn, dialConf, remotePubKey, hs, rawCerts, sess, ret,
          answer, privKey, localPeer>>

NoHolder == 0
NoPeer == 0
NoCallback == [set |-> FALSE, p |-> NoPeer, cell |-> 0]
NoConn == [set |-> FALSE]
NoRet == [conn |-> NoConn, err |-> NoErr]
NoPconn == [conn |-> NilPacketConn, err |-> NoErr]
NoDialConf == [ptr |-> "nil", clone |-> [VerifyPeerCertificate |-> NoCallback]]
NoHandshake == [state |-> "none", err |-> NoErr]
NoListener == [set |-> FALSE]
NoAnswer == [bool |-> FALSE, protocols |-> <<>>, listener |-> NoListener]

\* the key NewTransport is given: a private key and its public half
LocalKey == [private |-> TRUE, pub |-> 1]

\* peer.IDFromPrivateKey(key), line 85
IDFromPrivateKey(k) == IDFromPublicKey(k.pub)

\* NewTransport: the shared configuration of generateConfig installs no
\* verification callback, and the connManager starts empty
Init ==
  /\ connIPv4 = NilPacketConn
  /\ connIPv6 = NilPacketConn
  /\ mutex = NoHolder
  /\ sockets = <<>>
  /\ tlsConf = [VerifyPeerCertificate |-> NoCallback]
  /\ op = [t \in Tasks |-> "none"]
  /\ pc = [t \in Tasks |-> "idle"]
  /\ raddr = [t \in Tasks |-> NoAddr]
  /\ p = [t \in Tasks |-> NoPeer]
  /\ ctx = [t \in Tasks |-> "live"]
  /\ network = [t \in Tasks |-> ""]
  /\ pconn = [t \in Tasks |-> NoPconn]
  /\ dialConf = [t \in Tasks |-> NoDialConf]
  /\ remotePubKey = [t \in Tasks |-> NoKey]
  /\ hs = [t \in Tasks |-> NoHandshake]
  /\ rawCerts = [t \in Tasks |-> <<>>]
  /\ sess = [t \in Tasks |-> "nil"]
  /\ ret = [t \in Tasks |-> NoRet]
  /\ answer = [t \in Tasks |-> NoAnswer]
  /\ privKey = LocalKey
  /\ localPeer = IDFromPrivateKey(LocalKey)

(* --------------------- connManager: the socket pool -------------------- *)

\* the switch of GetConnForAddr, lines 45-62: which field a network selects
Cached(n) == IF n = "udp4" THEN connIPv4 ELSE connIPv6

\* MutexLock without mutual exclusion: the lock is taken while it is held
MutexLockRacy(t) == mutex' = t

\* c.mutex.Lock(), line 42
MutexLock(t) ==
  /\ mutex = NoHolder
  /\ mutex' = t

\* GetConnReturn whose error returns leave without unlocking
GetConnReturnLockedOnError(t, c, e) ==
  /\ pconn' = [pconn EXCEPT ![t] = [conn |-> c, err |-> e]]
  /\ mutex' = IF e = NoErr THEN NoHolder ELSE mutex
  /\ pc' = [pc EXCEPT ![t] = "returned"]

\* GetConnReturn that hands the socket out with the lock still held
GetConnReturnLockedOnSuccess(t, c, e) ==
  /\ pconn' = [pconn EXCEPT ![t] = [conn |-> c, err |-> e]]
  /\ mutex' = IF e = NoErr THEN mutex ELSE NoHolder
  /\ pc' = [pc EXCEPT ![t] = "returned"]

\* the deferred c.mutex.Unlock(), line 43, together with the return
GetConnReturn(t, c, e) ==
  /\ pconn' = [pconn EXCEPT ![t] = [conn |-> c, err |-> e]]
  /\ mutex' = NoHolder
  /\ pc' = [pc EXCEPT ![t] = "returned"]

\* a direct call of connManager.GetConnForAddr(network), line 41
CallGetConnForAddr(t) ==
  /\ pc[t] = "idle"
  /\ \E n \in Networks :
       /\ op' = [op EXCEPT ![t] = "GetConnForAddr"]
       /\ network' = [network EXCEPT ![t] = n]
       /\ pc' = [pc EXCEPT ![t] = "lock"]
  /\ UNCHANGED <<poolVars, tlsConf, raddr, p, ctx, pconn, dialVars, ret, queryVars>>

\* GetConnForAddr, lines 41-42: enter the critical section
GetConnLock(t) ==
  /\ pc[t] = "lock"
  /\ MutexLock(t)
  /\ pc' = [pc EXCEPT ![t] = "switch"]
  /\ UNCHANGED <<connIPv4, connIPv6, sockets, tlsConf, argVars, ctx, pconn, dialVars, ret, queryVars>>

\* Supported with the default case falling into the udp6 case
SupportedAll(n) == TRUE

\* the cases of the switch, lines 46 and 53; anything else is the default
Supported(n) == n \in {"udp4", "udp6"}

\* CacheHit without the nil check: every call creates
CacheHitNever(n) == FALSE

\* lines 47 and 54: the cached socket is returned when the field is not nil
CacheHit(n) == NotNil(Cached(n))

\* lines 45-62 without the creation: cached hit, unsupported network, or
\* go on to createConn with the mutex held
GetConnSwitch(t) ==
  /\ pc[t] = "switch"
  /\ IF Supported(network[t])
     THEN IF CacheHit(network[t])
          THEN GetConnReturn(t, Cached(network[t]), NoErr)
          ELSE /\ pc' = [pc EXCEPT ![t] = "create"]
               /\ UNCHANGED <<mutex, pconn>>
     ELSE GetConnReturn(t, NilPacketConn, "unsupported network")
  /\ UNCHANGED <<connIPv4, connIPv6, sockets, tlsConf, argVars, ctx, dialVars, ret, queryVars>>

\* what the operating system can answer to createConn
CreateOutcomes == {"resolve error", "listen error", "ok"}

\* createConn, lines 65-71: a failed ResolveUDPAddr returns the nil
\* interface; `return net.ListenUDP(network, addr)` converts the
\* *net.UDPConn to net.PacketConn, also the nil pointer of a failed ListenUDP
createConn(o, n) ==
  CASE o = "resolve error" -> [conn |-> NilPacketConn, err |-> "resolve error"]
    [] o = "listen error" -> [conn |-> NilUDPConn, err |-> "listen error"]
    [] o = "ok" -> [conn |-> UDPConn(n), err |-> NoErr]

\* StoreIPv4 assigning connIPv4 in the udp6 case too
StoreIPv4Both(n, c) == IF n \in {"udp4", "udp6"} THEN c ELSE connIPv4

\* the assignments `c.connIPv4, err = ...` (line 51) and
\* `c.connIPv6, err = ...` (line 58): the new values of the two fields
StoreIPv4(n, c) == IF n = "udp4" THEN c ELSE connIPv4
StoreIPv6(n, c) == IF n = "udp6" THEN c ELSE connIPv6

\* lines 50-52 and 57-59: create, store in the field of the family, return
GetConnCreate(t) ==
  /\ pc[t] = "create"
  /\ \E o \in CreateOutcomes :
       /\ o = "ok" => Len(sockets) < MaxSockets
       /\ LET r == createConn(o, Len(sockets) + 1)
          IN  /\ connIPv4' = StoreIPv4(network[t], r.conn)
              /\ connIPv6' = StoreIPv6(network[t], r.conn)
              /\ sockets' = IF o = "ok"
                            THEN Append(sockets, [network |-> network[t], open |-> TRUE])
                            ELSE sockets
              /\ GetConnReturn(t, r.conn, r.err)
  /\ UNCHANGED <<tlsConf, argVars, ctx, dialVars, ret, queryVars>>

(* ----------------------------- transport.Dial -------------------------- *)

\* fromQuicMultiaddr(raddr), line 112: the UDP address under the /quic
\* component; an address that is not a QUIC address does not translate
fromQuicMultiaddr(a) ==
  IF a.ip \in {"ip4", "ip6"} /\ a.l4 = "udp" /\ a.quic
  THEN NoErr
  ELSE "not a QUIC multiaddr"

\* toQuicMultiaddr(sess.LocalAddr()), line 144: the results it can have
toQuicMultiaddrErrs == {NoErr, "not a UDP address"}

\* DialFail closing the socket the dial acquired before it returns the error
DialFailClosing(t, e) ==
  /\ ret' = [ret EXCEPT ![t] = [conn |-> NoConn, err |-> e]]
  /\ pc' = [pc EXCEPT ![t] = "done"]
  /\ sockets' = [i \in 1..Len(sockets) |->
       IF i = pconn[t].conn.ptr THEN [sockets[i] EXCEPT !.open = FALSE] ELSE sockets[i]]
  /\ UNCHANGED <<connIPv4, connIPv6, mutex, queryVars>>

\* DialFail that hands out a half-built connection next to the error
DialFailPartial(t, e) ==
  /\ ret' = [ret EXCEPT ![t] =
       [conn |-> [set |-> TRUE,
                  sess |-> sess[t],
                  pconn |-> pconn[t].conn,
                  remotePubKey |-> remotePubKey[t],
                  remotePeerID |-> p[t],
                  remoteMultiaddr |-> raddr[t]],
        err |-> e]]
  /\ pc' = [pc EXCEPT ![t] = "done"]
  /\ UNCHANGED <<poolVars, queryVars>>

\* every `return nil, err` of Dial, lines 106, 110, 114, 142 and 146: the
\* error goes to the caller, nothing else is touched
DialFail(t, e) ==
  /\ ret' = [ret EXCEPT ![t] = [conn |-> NoConn, err |-> e]]
  /\ pc' = [pc EXCEPT ![t] = "done"]
  /\ UNCHANGED <<poolVars, queryVars>>

\* Dial, lines 103-108: decode the network of raddr, then call GetConnForAddr;
\* the context the caller passes can be cancelled already
CallDial(t) ==
  /\ pc[t] = "idle"
  /\ \E a \in RAddrs, id \in PeerIDs, c \in {"live", "canceled"} :
       /\ op' = [op EXCEPT ![t] = "Dial"]
       /\ raddr' = [raddr EXCEPT ![t] = a]
       /\ p' = [p EXCEPT ![t] = id]
       /\ ctx' = [ctx EXCEPT ![t] = c]
       /\ IF DialArgs(a).err # NoErr
          THEN /\ DialFail(t, DialArgs(a).err)
               /\ UNCHANGED network
          ELSE /\ network' = [network EXCEPT ![t] = DialArgs(a).network]
               /\ pc' = [pc EXCEPT ![t] = "lock"]
               /\ UNCHANGED <<poolVars, ret, queryVars>>
  /\ UNCHANGED <<tlsConf, pconn, dialVars>>

\* the closure of lines 121-139: it captures Dial's p and the variable
\* remotePubKey of the dial that built it
Callback(t) == [set |-> TRUE, p |-> p[t], cell |-> t]

\* CloneAndInstall that writes the callback to the clone and to t.tlsConf
InstallOnBoth(t) ==
  /\ dialConf' = [dialConf EXCEPT ![t] =
       [ptr |-> "clone",
        clone |-> [tlsConf EXCEPT !.VerifyPeerCertificate = Callback(t)]]]
  /\ tlsConf' = [tlsConf EXCEPT !.VerifyPeerCertificate = Callback(t)]

\* CloneAndInstall without the Clone: the callback goes on t.tlsConf itself
InstallOnShared(t) ==
  /\ dialConf' = [dialConf EXCEPT ![t] = [ptr |-> "shared", clone |-> NoDialConf.clone]]
  /\ tlsConf' = [tlsConf EXCEPT !.VerifyPeerCertificate = Callback(t)]

\* lines 117 and 121: tlsConf := t.tlsConf.Clone(), and the callback is
\* installed on the clone; the shared configuration is left as it was
CloneAndInstall(t) ==
  /\ dialConf' = [dialConf EXCEPT ![t] =
       [ptr |-> "clone",
        clone |-> [tlsConf EXCEPT !.VerifyPeerCertificate = Callback(t)]]]
  /\ tlsConf' = tlsConf

\* the configuration Dial's local tlsConf points to
ConfOf(t) == IF dialConf[t].ptr = "shared" THEN tlsConf ELSE dialConf[t].clone

\* AcquireFailed of a Dial that does not look at GetConnForAddr's error
AcquireFailedIgnored(t) == FALSE

\* `if err != nil` after GetConnForAddr, line 109
AcquireFailed(t) == pconn[t].err # NoErr

\* Dial, lines 109-140: the error of GetConnForAddr, fromQuicMultiaddr, the
\* clone with its callback, and the start of quic.DialContext
DialPrepare(t) ==
  /\ op[t] = "Dial"
  /\ pc[t] = "returned"
  /\ IF AcquireFailed(t)
     THEN /\ DialFail(t, pconn[t].err)
          /\ UNCHANGED <<tlsConf, dialVars>>
     ELSE IF fromQuicMultiaddr(raddr[t]) # NoErr
     THEN /\ DialFail(t, fromQuicMultiaddr(raddr[t]))
          /\ UNCHANGED <<tlsConf, dialVars>>
     ELSE /\ CloneAndInstall(t)
          /\ remotePubKey' = [remotePubKey EXCEPT ![t] = NoKey]
          /\ hs' = [hs EXCEPT ![t] = [state |-> "pending", err |-> NoErr]]
          /\ pc' = [pc EXCEPT ![t] = "handshake"]
          /\ UNCHANGED <<poolVars, rawCerts, sess, ret, queryVars>>
  /\ UNCHANGED <<argVars, ctx, pconn>>

\* VerifyPeerCertificate without the MatchesPublicKey check of line 135
VerifyWithoutMatch(cb, chain) ==
  IF ParseError(chain)
  THEN [assigned |-> FALSE, key |-> NoKey, err |-> "x509 parse error"]
  ELSE [assigned |-> TRUE, key |-> getRemotePubKey(chain).key,
        err |-> getRemotePubKey(chain).err]

\* VerifyPeerCertificate with `remotePubKey, err := getRemotePubKey(chain)`:
\* the key goes to a variable of the closure, Dial's remotePubKey stays nil
VerifyShadowed(cb, chain) ==
  IF ParseError(chain)
  THEN [assigned |-> FALSE, key |-> NoKey, err |-> "x509 parse error"]
  ELSE LET r == getRemotePubKey(chain)
       IN  IF r.err # NoErr
           THEN [assigned |-> FALSE, key |-> NoKey, err |-> r.err]
           ELSE IF ~MatchesPublicKey(cb.p, r.key)
           THEN [assigned |-> FALSE, key |-> NoKey, err |-> "peer IDs don't match"]
           ELSE [assigned |-> FALSE, key |-> NoKey, err |-> NoErr]

\* the body of the callback, lines 121-139, run with the chain the remote
\* presented: whether remotePubKey was assigned, its value, and the error
VerifyPeerCertificate(cb, chain) ==
  IF ParseError(chain)
  THEN [assigned |-> FALSE, key |-> NoKey, err |-> "x509 parse error"]
  ELSE LET r == getRemotePubKey(chain)
       IN  IF r.err # NoErr
           THEN [assigned |-> TRUE, key |-> r.key, err |-> r.err]
           ELSE IF ~MatchesPublicKey(cb.p, r.key)
           THEN [assigned |-> TRUE, key |-> r.key, err |-> "peer IDs don't match"]
           ELSE [assigned |-> TRUE, key |-> r.key, err |-> NoErr]

\* inside quic.DialContext, line 140: the remote's certificate chain
\* arrives on the socket and the TLS stack runs the callback of the
\* configuration it was given; a configuration without callback accepts any
\* chain, and nothing arrives on a nil *net.UDPConn
HandshakeCertificate(t) ==
  /\ pc[t] = "handshake"
  /\ hs[t].state = "pending"
  /\ Usable(pconn[t].conn)
  /\ \E chain \in Chains :
       LET cb == ConfOf(t).VerifyPeerCertificate
           v == VerifyPeerCertificate(cb, chain)
       IN  /\ rawCerts' = [rawCerts EXCEPT ![t] = chain]
           /\ IF ~cb.set
              THEN /\ hs' = [hs EXCEPT ![t] = [state |-> "verified", err |-> NoErr]]
                   /\ UNCHANGED remotePubKey
              ELSE /\ remotePubKey' = IF v.assigned
                                      THEN [remotePubKey EXCEPT ![cb.cell] = v.key]
                                      ELSE remotePubKey
                   /\ hs' = [hs EXCEPT ![t] =
                        IF v.err = NoErr
                        THEN [state |-> "verified", err |-> NoErr]
                        ELSE [state |-> "rejected", err |-> v.err]]
  /\ UNCHANGED <<poolVars, tlsConf, argVars, pc, ctx, pconn, dialConf, sess, ret, queryVars>>

\* inside quic.DialContext: the network fails or the handshake times out
HandshakeFail(t) ==
  /\ pc[t] = "handshake"
  /\ hs[t].state \in {"pending", "verified"}
  /\ hs' = [hs EXCEPT ![t] = [state |-> "failed", err |-> "handshake timeout"]]
  /\ UNCHANGED <<poolVars, tlsConf, argVars, pc, ctx, pconn, dialConf,
                 remotePubKey, rawCerts, sess, ret, queryVars>>

\* ContextDone of a DialContext that never looks at its context
ContextIgnored(t) == FALSE

\* ctx.Done() is closed
ContextDone(t) == ctx[t] # "live"

\* quic.DialContext returns, lines 140-143: with the context's error once
\* the context is done, with the handshake's error when the callback or the
\* network failed it, with the session when the handshake completed
DialContextReturn(t) ==
  /\ pc[t] = "handshake"
  /\ IF ContextDone(t)
     THEN /\ DialFail(t, "context canceled")
          /\ UNCHANGED sess
     ELSE /\ hs[t].state # "pending"
          /\ IF hs[t].state = "verified"
             THEN /\ sess' = [sess EXCEPT ![t] = "open"]
                  /\ pc' = [pc EXCEPT ![t] = "session"]
                  /\ UNCHANGED <<poolVars, ret, queryVars>>
             ELSE /\ DialFail(t, hs[t].err)
                  /\ UNCHANGED sess
  /\ UNCHANGED <<tlsConf, argVars, ctx, pconn, dialConf, remotePubKey, hs, rawCerts>>

\* Dial, lines 144-157: translate the local address and build the conn
DialReturn(t) ==
  /\ pc[t] = "session"
  /\ \E e \in toQuicMultiaddrErrs :
       IF e # NoErr
       THEN DialFail(t, e)
       ELSE /\ ret' = [ret EXCEPT ![t] =
                 [conn |-> [set |-> TRUE,
                            sess |-> sess[t],
                            pconn |-> pconn[t].conn,
                            remotePubKey |-> remotePubKey[t],
                            remotePeerID |-> p[t],
                            remoteMultiaddr |-> raddr[t]],
                  err |-> NoErr]]
            /\ pc' = [pc EXCEPT ![t] = "done"]
            /\ UNCHANGED <<poolVars, queryVars>>
  /\ UNCHANGED <<tlsConf, argVars, ctx, pconn, dialVars>>

\* the caller cancels the context it passed to Dial, line 103
Cancel(t) ==
  /\ op[t] = "Dial"
  /\ pc[t] \notin {"idle", "done"}
  /\ ctx[t] = "live"
  /\ ctx' = [ctx EXCEPT ![t] =
       IF pc[t] = "session" THEN "canceled after handshake" ELSE "canceled"]
  /\ UNCHANGED <<poolVars, tlsConf, argVars, pc, pconn, dialVars, ret, queryVars>>

(* ------------------- Listen and the capability methods ----------------- *)

\* what newListener can answer: a listener, or the error of its own bind
newListenerErrs == {NoErr, "listen failed"}

\* newListener(addr, t, t.localPeer, t.privKey, t.tlsConf): the listener keeps
\* what it is given, the shared configuration included
newListener(a, peer, key, conf) ==
  [set |-> TRUE, addr |-> a, localPeer |-> peer, privKey |-> key, tlsConf |-> conf]

\* Listen, lines 166-168
Listen(t) ==
  /\ pc[t] = "idle"
  /\ \E a \in RAddrs, e \in newListenerErrs :
       /\ raddr' = [raddr EXCEPT ![t] = a]
       /\ answer' = [answer EXCEPT ![t].listener =
            IF e = NoErr THEN newListener(a, localPeer, privKey, tlsConf)
                         ELSE NoListener]
       /\ ret' = [ret EXCEPT ![t] = [conn |-> NoConn, err |-> e]]
  /\ op' = [op EXCEPT ![t] = "Listen"]
  /\ pc' = [pc EXCEPT ![t] = "done"]
  /\ UNCHANGED <<poolVars, tlsConf, p, network, ctx, pconn, dialVars, privKey, localPeer>>

\* a CanDial that answers from the state of the socket pool
CanDialPooled(a) ==
  /\ a.ip \in {"ip4", "ip6"}
  /\ a.l4 = "udp"
  /\ a.quic
  /\ NotNil(IF a.ip = "ip4" THEN connIPv4 ELSE connIPv6)

\* mafmt.QUIC.Matches(addr), line 162: IP, then UDP, then QUIC
CanDialMatches(a) ==
  /\ a.ip \in {"ip4", "ip6"}
  /\ a.l4 = "udp"
  /\ a.quic

\* CanDial, lines 160-163
CanDial(t) ==
  /\ pc[t] = "idle"
  /\ \E a \in RAddrs :
       /\ raddr' = [raddr EXCEPT ![t] = a]
       /\ answer' = [answer EXCEPT ![t].bool = CanDialMatches(a)]
  /\ op' = [op EXCEPT ![t] = "CanDial"]
  /\ pc' = [pc EXCEPT ![t] = "done"]
  /\ UNCHANGED <<poolVars, tlsConf, p, network, ctx, pconn, dialVars, ret,
                 privKey, localPeer>>

\* ma.P_QUIC, the multiaddr code of the QUIC protocol, line 177
P_QUIC == 460

\* a Proxy that answers true once a socket is pooled
ProxyResultPooled == NotNil(connIPv4) \/ NotNil(connIPv6)

\* the literal of line 172
ProxyResult == FALSE

\* Proxy, lines 171-173
Proxy(t) ==
  /\ pc[t] = "idle"
  /\ answer' = [answer EXCEPT ![t].bool = ProxyResult]
  /\ op' = [op EXCEPT ![t] = "Proxy"]
  /\ pc' = [pc EXCEPT ![t] = "done"]
  /\ UNCHANGED <<poolVars, tlsConf, raddr, p, network, ctx, pconn, dialVars, ret,
                 privKey, localPeer>>

\* Protocols, lines 176-178
Protocols(t) ==
  /\ pc[t] = "idle"
  /\ answer' = [answer EXCEPT ![t].protocols = <<P_QUIC>>]
  /\ op' = [op EXCEPT ![t] = "Protocols"]
  /\ pc' = [pc EXCEPT ![t] = "done"]
  /\ UNCHANGED <<poolVars, tlsConf, raddr, p, network, ctx, pconn, dialVars, ret,
                 privKey, localPeer>>

\* the call is over and the goroutine is free to make its next call
Finish(t) ==
  /\ \/ pc[t] = "done"
     \/ pc[t] = "returned" /\ op[t] = "GetConnForAddr"
  /\ op' = [op EXCEPT ![t] = "none"]
  /\ pc' = [pc EXCEPT ![t] = "idle"]
  /\ raddr' = [raddr EXCEPT ![t] = NoAddr]
  /\ p' = [p EXCEPT ![t] = NoPeer]
  /\ ctx' = [ctx EXCEPT ![t] = "live"]
  /\ network' = [network EXCEPT ![t] = ""]
  /\ pconn' = [pconn EXCEPT ![t] = NoPconn]
  /\ dialConf' = [dialConf EXCEPT ![t] = NoDialConf]
  /\ remotePubKey' = [remotePubKey EXCEPT ![t] = NoKey]
  /\ hs' = [hs EXCEPT ![t] = NoHandshake]
  /\ rawCerts' = [rawCerts EXCEPT ![t] = <<>>]
  /\ sess' = [sess EXCEPT ![t] = "nil"]
  /\ ret' = [ret EXCEPT ![t] = NoRet]
  /\ answer' = [answer EXCEPT ![t] = NoAnswer]
  /\ UNCHANGED <<poolVars, tlsConf, privKey, localPeer>>

(* ---------------------------- specification ---------------------------- *)

Next ==
  \E t \in Tasks :
    \/ CallGetConnForAddr(t)
    \/ CallDial(t)
    \/ GetConnLock(t)
    \/ GetConnSwitch(t)
    \/ GetConnCreate(t)
    \/ DialPrepare(t)
    \/ HandshakeCertificate(t)
    \/ HandshakeFail(t)
    \/ DialContextReturn(t)
    \/ DialReturn(t)
    \/ Cancel(t)
    \/ Listen(t)
    \/ CanDial(t)
    \/ Proxy(t)
    \/ Protocols(t)
    \/ Finish(t)

Spec == Init /\ [][Next]_vars

\* the steps a goroutine takes on its own once it is scheduled
Run(t) ==
  \/ GetConnSwitch(t)
  \/ GetConnCreate(t)
  \/ DialPrepare(t)
  \/ DialContextReturn(t)
  \/ DialReturn(t)

\* the scheduler runs every goroutine that can take a step; sync.Mutex hands
\* the lock to a waiter that keeps asking (starvation mode).  The caller's
\* calls and cancellations and the remote's packets are under no obligation.
Fairness ==
  \A t \in Tasks :
    /\ SF_vars(GetConnLock(t))
    /\ WF_vars(Run(t))

FairSpec == Spec /\ Fairness

(* ------------------------------ properties ----------------------------- *)

Families == {"udp4", "udp6"}

\* the sockets of a family that were ever opened
SocketsOf(n) == {i \in 1..Len(sockets) : sockets[i].network = n}

\* the task's call of GetConnForAddr has returned
Acquired(t) == pc[t] \in {"returned", "handshake", "session", "done"} /\ network[t] # ""

\* C1: under every interleaving of Dial and GetConnForAddr calls at most one
\* socket is ever opened per address family, and every caller that acquired
\* the socket of a family without error holds the one handle stored in the
\* pool for that family.
C1_OneSocketPerFamily ==
  /\ \A n \in Families : Cardinality(SocketsOf(n)) <= 1
  /\ \A t \in Tasks :
       (Acquired(t) /\ pconn[t].err = NoErr) => pconn[t].conn = Cached(network[t])

\* two dials to distinct addresses of one family are in flight on one socket
C1_Witness ==
  /\ op[1] = "Dial" /\ op[2] = "Dial"
  /\ raddr[1] # raddr[2]
  /\ network[1] = "udp4" /\ network[2] = "udp4"
  /\ pc[1] = "handshake" /\ pc[2] = "returned"
  /\ Usable(pconn[1].conn) /\ pconn[1] = pconn[2]
  /\ Cardinality(SocketsOf("udp4")) = 1

\* the chain the remote presented to the dial carries a key, and the key
\* derives a peer ID other than the one the dial expects
Presented(t) == pc[t] \in {"handshake", "session", "done"} /\ hs[t].state \in {"verified", "rejected"}
PresentedKey(t) == getRemotePubKey(rawCerts[t])
Mismatch(t) ==
  /\ Presented(t)
  /\ ~ParseError(rawCerts[t])
  /\ PresentedKey(t).err = NoErr
  /\ IDFromPublicKey(PresentedKey(t).key) # p[t]

\* C2: when the remote presents a chain whose key derives a peer ID other
\* than the expected one, the callback rejects the handshake with the
\* mismatch error, no session is established, and Dial returns an error and
\* no conn.
C2_MismatchIsFatal ==
  \A t \in Tasks :
    Mismatch(t) =>
      /\ hs[t] = [state |-> "rejected", err |-> "peer IDs don't match"]
      /\ sess[t] = "nil"
      /\ pc[t] # "session"
      /\ pc[t] = "done" => (~ret[t].conn.set /\ ret[t].err # NoErr)

\* a dial returned the mismatch error
C2_Witness ==
  \E t \in Tasks :
    /\ Mismatch(t)
    /\ pc[t] = "done"
    /\ ret[t] = [conn |-> NoConn, err |-> "peer IDs don't match"]

\* C3: every conn Dial returns carries the expected peer ID as remote peer
\* ID and, as remote public key, the key extracted from the chain presented
\* in this dial's handshake; that key is set and matches the peer ID.
C3_ReturnedConnVerified ==
  \A t \in Tasks :
    ret[t].conn.set =>
      /\ ret[t].err = NoErr
      /\ ret[t].conn.remotePeerID = p[t]
      /\ hs[t].state = "verified"
      /\ ~ParseError(rawCerts[t])
      /\ PresentedKey(t).err = NoErr
      /\ ret[t].conn.remotePubKey = PresentedKey(t).key
      /\ ret[t].conn.remotePubKey # NoKey
      /\ MatchesPublicKey(ret[t].conn.remotePeerID, ret[t].conn.remotePubKey)

\* a dial returned a conn
C3_Witness ==
  \E t \in Tasks :
    /\ pc[t] = "done"
    /\ ret[t].conn.set
    /\ ret[t].conn.remotePubKey \in PubKeys

\* the verdict the callback of dial t owes to the chain: accept exactly the
\* chains that parse and carry a key deriving the peer ID dial t expects
Accepts(t, chain) ==
  /\ ~ParseError(chain)
  /\ getRemotePubKey(chain).err = NoErr
  /\ MatchesPublicKey(p[t], getRemotePubKey(chain).key)

\* C4: the verification of one dial's handshake decides by that dial's own
\* expected peer ID, records the key in that dial's own remotePubKey and
\* leaves every other dial's verdict, remotePubKey and configuration alone.
C4_DialsIndependent ==
  [][\A t \in Tasks :
       (pc[t] = "handshake" /\ hs[t].state = "pending" /\ hs'[t].state \in {"verified", "rejected"}) =>
         /\ hs'[t].state = "verified" <=> Accepts(t, rawCerts'[t])
         /\ hs'[t].state = "verified" => remotePubKey'[t] = getRemotePubKey(rawCerts'[t]).key
         /\ \A u \in Tasks \ {t} :
              /\ remotePubKey'[u] = remotePubKey[u]
              /\ hs'[u] = hs[u]
              /\ dialConf'[u] = dialConf[u]]_vars

\* two concurrent dials expecting different peers were shown the same
\* certificate: one was accepted and the other rejected
C4_Witness ==
  /\ pc[1] = "handshake" /\ pc[2] = "handshake"
  /\ p[1] # p[2]
  /\ Len(rawCerts[1]) = 1 /\ rawCerts[1] = rawCerts[2]
  /\ hs[1].state = "verified" /\ hs[2].state = "rejected"
  /\ remotePubKey[1] = remotePubKey[2]

\* C5: when GetConnForAddr fails because createConn failed, the pool's
\* field for that family is nil afterwards, so that the next call retries.
C5_FailuresNotCached ==
  [][\A t \in Tasks :
       (pc[t] = "create" /\ pc'[t] = "returned" /\ pconn'[t].err # NoErr) =>
         ~NotNil(IF network[t] = "udp4" THEN connIPv4' ELSE connIPv6')]_vars

\* C6: GetConnForAddr with a network other than udp4 and udp6 returns the
\* unsupported-network error and changes neither the pool nor the sockets;
\* a Dial whose address resolves to such a network returns that error and
\* never creates a socket or starts a handshake.
C6_UnsupportedNetwork ==
  /\ [][\A t \in Tasks :
          (pc[t] = "switch" /\ network[t] \notin Families /\ pc'[t] # "switch") =>
            /\ pc'[t] = "returned"
            /\ pconn'[t] = [conn |-> NilPacketConn, err |-> "unsupported network"]
            /\ connIPv4' = connIPv4
            /\ connIPv6' = connIPv6
            /\ sockets' = sockets]_vars
  /\ [](\A t \in Tasks :
          (op[t] = "Dial" /\ network[t] \notin Families \cup {""}) =>
            /\ pc[t] \notin {"create", "handshake", "session"}
            /\ hs[t].state = "none"
            /\ sess[t] = "nil"
            /\ pc[t] = "done" => ret[t] = [conn |-> NoConn, err |-> "unsupported network"])

\* a dial of a TCP address and a direct call with "udp5" both failed, and
\* no socket exists
C6_Witness ==
  /\ op[1] = "Dial" /\ network[1] = "tcp4" /\ pc[1] = "done"
  /\ ret[1].err = "unsupported network"
  /\ op[2] = "GetConnForAddr" /\ network[2] = "udp5" /\ pc[2] = "returned"
  /\ pconn[2].err = "unsupported network"
  /\ sockets = <<>>

\* C7: the handle acquired for a family is a socket of that family, each
\* field of the pool holds a socket of its own family only, and a creation
\* (successful or failed) for one family leaves the other family's field
\* unchanged.
C7_FamilyIsolation ==
  /\ [](/\ Usable(connIPv4) => sockets[connIPv4.ptr].network = "udp4"
        /\ Usable(connIPv6) => sockets[connIPv6.ptr].network = "udp6"
        /\ \A t \in Tasks :
             (Acquired(t) /\ Usable(pconn[t].conn)) =>
               sockets[pconn[t].conn.ptr].network = network[t])
  /\ [][\A t \in Tasks :
          (pc[t] = "create" /\ pc'[t] = "returned") =>
            /\ network[t] = "udp4" => connIPv6' = connIPv6
            /\ network[t] = "udp6" => connIPv4' = connIPv4]_vars

\* both families have their socket, and one caller holds each
C7_Witness ==
  /\ Usable(connIPv4) /\ Usable(connIPv6) /\ connIPv4 # connIPv6
  /\ pc[1] = "returned" /\ network[1] = "udp4" /\ pconn[1].conn = connIPv4
  /\ pc[2] = "returned" /\ network[2] = "udp6" /\ pconn[2].conn = connIPv6

\* C8: once a family's field holds a created socket it never changes again,
\* whatever acquires, dials, failures and cancellations follow, and every
\* acquire of the family that returns afterwards returns that handle.
C8_SocketIsStable ==
  [][/\ Usable(connIPv4) => connIPv4' = connIPv4
     /\ Usable(connIPv6) => connIPv6' = connIPv6
     /\ \A t \in Tasks :
          (pc[t] \in {"switch", "create"} /\ pc'[t] = "returned"
              /\ network[t] \in Families /\ Usable(Cached(network[t]))) =>
            pconn'[t] = [conn |-> Cached(network[t]), err |-> NoErr]]_vars

\* a cancelled dial failed on the socket, and a later acquire returned the
\* same handle
C8_Witness ==
  /\ op[1] = "Dial" /\ pc[1] = "done" /\ ret[1].err = "context canceled"
  /\ op[2] = "GetConnForAddr" /\ pc[2] = "returned"
  /\ Usable(pconn[2].conn) /\ pconn[2].conn = pconn[1].conn
  /\ Len(sockets) = 1

\* C9: a Dial whose context is cancelled before the handshake completes
\* never returns a conn, and it eventually returns an error.
C9_CancelledDialReturnsError ==
  \A t \in Tasks :
    /\ [](ctx[t] = "canceled" => (~ret[t].conn.set /\ pc[t] # "session" /\ sess[t] = "nil"))
    /\ (ctx[t] = "canceled") ~> (pc[t] = "done" /\ ret[t].err # NoErr /\ ~ret[t].conn.set)

\* a dial cancelled while it waited for the remote returned the context's error
C9_Witness ==
  \E t \in Tasks :
    /\ ctx[t] = "canceled"
    /\ pc[t] = "done"
    /\ hs[t].state = "pending"
    /\ ret[t] = [conn |-> NoConn, err |-> "context canceled"]

\* C10: a Dial that failed after it acquired the pooled socket leaves that
\* socket open and in the pool; no socket is ever closed.
C10_FailedDialKeepsSocket ==
  /\ \A i \in 1..Len(sockets) : sockets[i].open
  /\ \A t \in Tasks :
       (op[t] = "Dial" /\ pc[t] = "done" /\ ret[t].err # NoErr /\ Usable(pconn[t].conn)) =>
         /\ sockets[pconn[t].conn.ptr].open
         /\ Cached(network[t]) = pconn[t].conn

\* one dial failed on the socket while another dial's handshake runs on it
C10_Witness ==
  /\ op[1] = "Dial" /\ pc[1] = "done" /\ ret[1].err = "peer IDs don't match"
  /\ op[2] = "Dial" /\ pc[2] = "handshake"
  /\ Usable(pconn[1].conn) /\ pconn[2].conn = pconn[1].conn

\* the lock of the pool is held by exactly the task inside GetConnForAddr
InPool(t) == pc[t] \in {"switch", "create"}

\* C11 as stated: while one caller is inside the creation of the IPv4 socket,
\* a caller that asks for the IPv6 socket is not made to wait, it can take
\* its lock step.
C11_OtherFamilyNotBlocked ==
  \A t, u \in Tasks :
    (/\ t # u
     /\ pc[t] = "create" /\ network[t] = "udp4"
     /\ pc[u] = "lock" /\ network[u] = "udp6")
      => ENABLED GetConnLock(u)

\* C11: the pool has one lock for both families.  While a caller is inside
\* GetConnForAddr (the creation of a socket included) it holds that lock, no
\* other caller is inside, and every other caller waits at the lock whatever
\* family it asks for; a waiter can go on as soon as the lock is free.
C11_CreationHoldsTheOneLock ==
  \A t, u \in Tasks :
    t # u =>
      /\ InPool(t) => mutex = t /\ ~InPool(u)
      /\ InPool(t) /\ pc[u] = "lock" => ~ENABLED GetConnLock(u)
      /\ mutex = NoHolder /\ pc[u] = "lock" => ENABLED GetConnLock(u)

C11_Witness ==
  \E t, u \in Tasks :
    /\ t # u
    /\ pc[t] = "create" /\ network[t] = "udp4" /\ mutex = t
    /\ pc[u] = "lock" /\ network[u] = "udp6"

\* C12: no step of Dial, Listen, CanDial, Protocols or Proxy changes privKey,
\* localPeer or the shared tlsConf, which never carries a verification
\* callback; the configuration a Dial writes its callback to is its own
\* clone, and a Listener is handed the identity and the shared tlsConf as
\* they are.
C12_IdentityAndTemplateImmutable ==
  [][/\ privKey' = privKey
     /\ localPeer' = localPeer
     /\ tlsConf' = tlsConf
     /\ ~tlsConf'.VerifyPeerCertificate.set
     /\ \A t \in Tasks :
          /\ dialConf'[t] # dialConf[t] /\ pc'[t] = "handshake" =>
               /\ dialConf'[t].ptr = "clone"
               /\ dialConf'[t].clone.VerifyPeerCertificate.set
               /\ dialConf'[t].clone.VerifyPeerCertificate.p = p[t]
          /\ answer'[t].listener.set =>
               /\ answer'[t].listener.tlsConf = tlsConf
               /\ answer'[t].listener.privKey = privKey
               /\ answer'[t].listener.localPeer = localPeer]_vars

C12_Witness ==
  \E t, u \in Tasks :
    /\ t # u
    /\ op[t] = "Dial" /\ dialConf[t].clone.VerifyPeerCertificate.set
    /\ op[u] = "Listen" /\ answer[u].listener.set
    /\ answer[u].listener.tlsConf = tlsConf
    /\ ~tlsConf.VerifyPeerCertificate.set

\* C13: a Dial that has returned gave either a connection and no error or an
\* error and no connection; the error of the first step that failed is the
\* one returned, and the steps after it were not taken.
C13_ConnectionXorError ==
  \A t \in Tasks :
    op[t] = "Dial" /\ pc[t] = "done" =>
      /\ ret[t].conn.set <=> ret[t].err = NoErr
      /\ ret[t].err # NoErr => ret[t].conn = NoConn
      /\ DialArgs(raddr[t]).err # NoErr =>
           /\ ret[t].err = DialArgs(raddr[t]).err
           /\ network[t] = "" /\ pconn[t] = NoPconn /\ hs[t] = NoHandshake
      /\ DialArgs(raddr[t]).err = NoErr /\ pconn[t].err # NoErr =>
           /\ ret[t].err = pconn[t].err
           /\ dialConf[t] = NoDialConf /\ hs[t] = NoHandshake
      /\ hs[t].state \in {"rejected", "failed"} =>
           /\ ret[t].err # NoErr
           /\ sess[t] = "nil"

C13_Witness ==
  \E t, u \in Tasks :
    /\ t # u
    /\ op[t] = "Dial" /\ pc[t] = "done" /\ ret[t].conn.set /\ ret[t].err = NoErr
    /\ op[u] = "Dial" /\ pc[u] = "done" /\ hs[u].state = "rejected"
    /\ ret[u].err # NoErr /\ ~ret[u].conn.set

\* the answers CanDial has given and that its callers still hold
CanDialAnswered(t) == op[t] = "CanDial" /\ pc[t] = "done"

\* C14: a CanDial call changes nothing of the transport, the pool or another
\* call, and its answer depends only on the address: two calls with the same
\* address get the same answer whatever happened in between, true for an
\* IP/UDP/QUIC address and false for an address of another protocol.
C14_CanDialIsPure ==
  /\ [](\A t, u \in Tasks :
          /\ CanDialAnswered(t) /\ CanDialAnswered(u) /\ raddr[t] = raddr[u] =>
               answer[t].bool = answer[u].bool
          /\ CanDialAnswered(t) =>
               answer[t].bool =
                 (raddr[t].ip \in {"ip4", "ip6"} /\ raddr[t].l4 = "udp" /\ raddr[t].quic))
  /\ [][\A t \in Tasks :
          op'[t] = "CanDial" /\ op[t] # "CanDial" =>
            /\ UNCHANGED <<poolVars, tlsConf, privKey, localPeer>>
            /\ \A u \in Tasks \ {t} :
                 /\ pc'[u] = pc[u] /\ ret'[u] = ret[u] /\ answer'[u] = answer[u]
                 /\ pconn'[u] = pconn[u] /\ hs'[u] = hs[u] /\ sess'[u] = sess[u]]_vars

C14_Witness ==
  \E t, u \in Tasks :
    /\ t # u
    /\ CanDialAnswered(t) /\ CanDialAnswered(u)
    /\ raddr[t] = raddr[u]
    /\ answer[t].bool /\ answer[u].bool
    /\ NotNil(connIPv4)

\* C15: in every reachable state Protocols answers the one-element list of
\* the QUIC protocol code and Proxy answers false.
C15_ProtocolsAndProxyFixed ==
  \A t \in Tasks :
    pc[t] = "done" =>
      /\ op[t] = "Protocols" =>
           Len(answer[t].protocols) = 1 /\ answer[t].protocols[1] = P_QUIC
      /\ op[t] = "Proxy" => answer[t].bool = FALSE

C15_Witness ==
  \E t, u \in Tasks :
    /\ op[t] = "Protocols" /\ pc[t] = "done" /\ answer[t].protocols = <<P_QUIC>>
    /\ op[u] = "Proxy" /\ pc[u] = "done" /\ ~answer[u].bool
    /\ NotNil(connIPv4) /\ NotNil(connIPv6)

\* C16 as stated: every session a Dial established is owned by the
\* connection the Dial returned; no Dial returns with its session open and
\* no connection holding it.
C16_SessionAlwaysOwned ==
  \A t \in Tasks :
    op[t] = "Dial" /\ pc[t] = "done" /\ sess[t] = "open" =>
      /\ ret[t].conn.set
      /\ ret[t].conn.sess = "open"

\* C17 as stated: a GetConnForAddr that returned without error for a
\* supported family returned an open socket of that family.
C17_AcquiredHandleIsOpenSocket ==
  \A t \in Tasks :
    Acquired(t) /\ network[t] \in Families /\ pconn[t].err = NoErr =>
      /\ Usable(pconn[t].conn)
      /\ pconn[t].conn.ptr \in SocketsOf(network[t])
      /\ sockets[pconn[t].conn.ptr].open

\* C18: the lock of the pool is held only by a task inside GetConnForAddr, so
\* every return path, the error paths included, has released it; and under
\* fair scheduling every caller that waits for the lock returns from
\* GetConnForAddr.
C18_LockReleasedAndAcquireReturns ==
  /\ [](\A t \in Tasks : mutex = t => InPool(t))
  /\ [](mutex # NoHolder => mutex \in Tasks)
  /\ \A t \in Tasks : (pc[t] = "lock") ~> (pc[t] = "returned")

C18_Witness ==
  \E t, u \in Tasks :
    /\ t # u
    /\ pc[t] = "returned" /\ pconn[t].err # NoErr
    /\ pc[u] = "create" /\ mutex = u

\* C19: a Dial is in, or past, session establishment only if its
\* GetConnForAddr returned no error and its remote address was translated;
\* a Dial whose GetConnForAddr returned an error returns that error and has
\* started no handshake.
C19_HandshakeOnlyAfterAcquire ==
  \A t \in Tasks :
    op[t] = "Dial" =>
      /\ (\/ pc[t] \in {"handshake", "session"}
          \/ hs[t].state # "none"
          \/ sess[t] = "open"
          \/ dialConf[t] # NoDialConf) =>
           /\ Acquired(t)
           /\ pconn[t].err = NoErr
           /\ fromQuicMultiaddr(raddr[t]) = NoErr
      /\ pc[t] = "done" /\ pconn[t].err # NoErr =>
           /\ ret[t].err = pconn[t].err
           /\ ~ret[t].conn.set
           /\ hs[t].state = "none"
           /\ sess[t] = "nil"

C19_Witness ==
  \E t, u \in Tasks :
    /\ t # u
    /\ op[t] = "Dial" /\ pc[t] = "done" /\ pconn[t].err # NoErr
    /\ fromQuicMultiaddr(raddr[t]) = NoErr
    /\ ret[t].err = pconn[t].err
    /\ op[u] = "Dial" /\ pc[u] = "handshake" /\ hs[u].state = "pending"

\* a Dial waiting inside quic.DialContext
Suspended(t) == op[t] = "Dial" /\ pc[t] = "handshake"

\* C20: a Dial suspended in session establishment does not hold the lock of
\* the pool, and it takes no step away from another Dial: the other can
\* take the lock when nobody else holds it, receive the certificate of its
\* own handshake, and return from its own DialContext.
C20_SuspendedDialBlocksNobody ==
  \A t, u \in Tasks :
    t # u /\ Suspended(t) =>
      /\ mutex # t
      /\ pc[u] = "lock" /\ (\A w \in Tasks \ {t, u} : mutex # w) =>
           ENABLED GetConnLock(u)
      /\ Suspended(u) /\ hs[u].state = "pending" /\ Usable(pconn[u].conn) =>
           ENABLED HandshakeCertificate(u)
      /\ Suspended(u) /\ hs[u].state # "pending" =>
           ENABLED DialContextReturn(u)

C20_Witness ==
  \E t, u \in Tasks :
    /\ t # u
    /\ Suspended(t) /\ hs[t].state = "pending"
    /\ op[u] = "Dial" /\ pc[u] = "session" /\ sess[u] = "open"
    /\ pconn[u].conn = pconn[t].conn

TypeOK ==
  /\ connIPv4 \in PacketConns
  /\ connIPv6 \in PacketConns
  /\ mutex \in Tasks \cup {NoHolder}
  /\ Len(sockets) <= MaxSockets
  /\ \A t \in Tasks : pconn[t].conn \in PacketConns

====
